---- MODULE Spec2Model ----
(***************************************************************************)
(* Recipe backend (backend/app.py): a Flask service that proxies           *)
(* TheMealDB, caches recipe lookups in recipe_cache for 7 days and keeps   *)
(* favorites and search_history rows in MySQL.                             *)
(*                                                                         *)
(* The tables are sets (favorites, recipe_cache) or a sequence in creation *)
(* order (search_history) of row records.  Every handler that issues one   *)
(* SQL statement is one action; GET /api/recipe/<id>, which reads the      *)
(* cache, calls upstream and writes the cache, is three steps of a client  *)
(* so that concurrent requests interleave between its statements.          *)
(* The variable ev records what the step just taken returned.              *)
(***************************************************************************)
EXTENDS Integers, Sequences, FiniteSets, TLC

VARIABLES users,            \* ids present in the users table
          favorites,        \* set of favorites rows
          search_history,   \* sequence of search_history rows, oldest first
          recipe_cache,     \* set of recipe_cache rows
          now,              \* the clock NOW() / CURRENT_TIMESTAMP, in days
          client,           \* per client: its GET /api/recipe request in flight
          ev                \* the handler or helper return of the last step

vars == <<users, favorites, search_history, recipe_cache, now, client, ev>>

---------------------------------------------------------------------------
(* Bounds of the model *)

MaxTime == 8        \* the clock of the cache specification runs 0..MaxTime
MaxBriefTime == 1   \* the clock of the favorites and search specifications
MaxFav == 2         \* favorites rows stored
MaxHist == 2        \* search_history rows written

(* Program constants *)

CACHE_TTL == 7      \* INTERVAL 7 DAY
DEFAULT_USER == 1   \* request.args.get('user_id', 1)
DEFAULT_LIMIT == 10 \* request.args.get('limit', 10)

(* Request inputs.  An optional parameter is <<>> when absent and <<v>>    *)
(* when given.                                                             *)

UserIds == {1, 2}
MealIds == {"52772", "52773"}
Names == {"Teriyaki", "Casserole"}
Details == {[meal_thumb |-> "a.jpg", category |-> "Chicken", area |-> "Japanese"],
            [meal_thumb |-> "b.jpg", category |-> "Pasta", area |-> "Italian"]}
Clients == {"c1", "c2"}

Opt(S) == {<<>>} \cup {<<v>> : v \in S}

\* A user_id parameter: absent, which stands for DEFAULT_USER, or another id.
UserIdArgs == Opt(UserIds \ {DEFAULT_USER})

\* dict.get(key, default) / request.args.get(key, default)
Get(arg, default) == IF arg = <<>> THEN default ELSE arg[1]

\* Outcome of the storage calls of one handler: the statement runs ("ok"),
\* get_db_connection returns None ("unreachable"), or cursor.execute raises
\* mysql.connector.Error ("error").
DbOutcomes == {"ok", "unreachable", "error"}

NoEvent == [op |-> "none"]

---------------------------------------------------------------------------
(* Favorites *)

FavRows(tbl, u, m) == {r \in tbl : r.user_id = u /\ r.meal_id = m}

\* Faulty variant of InsertFavorite: the table without UNIQUE KEY unique_favorite.
InsertFavoriteNoKey(tbl, u, m, name, d, t) ==
    tbl \cup {[user_id |-> u, meal_id |-> m, meal_name |-> name,
               meal_thumb |-> d.meal_thumb, category |-> d.category,
               area |-> d.area, created_at |-> t]}

\* Faulty variant of InsertFavorite: the conflict clause refreshes every column.
InsertFavoriteReplace(tbl, u, m, name, d, t) ==
    (tbl \ FavRows(tbl, u, m)) \cup
        {[user_id |-> u, meal_id |-> m, meal_name |-> name,
          meal_thumb |-> d.meal_thumb, category |-> d.category,
          area |-> d.area, created_at |-> t]}

\* INSERT INTO favorites ... ON DUPLICATE KEY UPDATE meal_name = VALUES(meal_name)
\* under UNIQUE KEY unique_favorite (user_id, meal_id); created_at defaults to
\* CURRENT_TIMESTAMP on insert.
InsertFavorite(tbl, u, m, name, d, t) ==
    IF FavRows(tbl, u, m) # {}
    THEN {IF r.user_id = u /\ r.meal_id = m
          THEN [r EXCEPT !.meal_name = name] ELSE r : r \in tbl}
    ELSE tbl \cup {[user_id |-> u, meal_id |-> m, meal_name |-> name,
                    meal_thumb |-> d.meal_thumb, category |-> d.category,
                    area |-> d.area, created_at |-> t]}

\* Faulty variant of DeleteFavorite: the WHERE clause without the user_id test.
DeleteFavoriteAnyUser(tbl, u, m) == {r \in tbl : r.meal_id # m}

\* DELETE FROM favorites WHERE user_id = %s AND meal_id = %s
DeleteFavorite(tbl, u, m) == tbl \ FavRows(tbl, u, m)

\* POST /api/favorites.  meal_id is absent, empty or given.  ev keeps the
\* name and the details of the request once they are bound to the statement.
add_favorite(uid, mid) ==
    LET user_id == Get(uid, DEFAULT_USER)
        meal_id == Get(mid, "")
        before  == FavRows(favorites, user_id, meal_id)
        req     == [op |-> "add_favorite", user_id |-> user_id, meal_id |-> meal_id,
                    before |-> before]
    IN  /\ UNCHANGED <<users, search_history, recipe_cache, now, client>>
        /\ IF meal_id = ""                      \* if not meal_id: 400
           THEN /\ ev' = req @@ [db |-> "none", status |-> 400]
                /\ UNCHANGED favorites
           ELSE \E db \in DbOutcomes :          \* get_db_connection, execute
                IF db = "unreachable"           \* if not connection: 500
                THEN /\ ev' = req @@ [db |-> db, status |-> 500]
                     /\ UNCHANGED favorites
                ELSE IF db = "error" \/ user_id \notin users   \* except Error: 500
                THEN /\ ev' = req @@ [db |-> "error", status |-> 500]
                     /\ UNCHANGED favorites
                ELSE \E name \in Names, d \in Details :
                     /\ before # {} \/ Cardinality(favorites) < MaxFav
                     /\ favorites' = InsertFavorite(favorites, user_id, meal_id,
                                                    name, d, now)
                     /\ ev' = req @@ [db |-> db, status |-> 200,
                                      meal_name |-> name, details |-> d]

\* DELETE /api/favorites/<meal_id>
remove_favorite(uid, meal_id) ==
    LET user_id == Get(uid, DEFAULT_USER)
        before  == FavRows(favorites, user_id, meal_id)
        req     == [op |-> "remove_favorite", user_id |-> user_id, meal_id |-> meal_id,
                    before |-> before]
    IN  /\ UNCHANGED <<users, search_history, recipe_cache, now, client>>
        /\ \E db \in DbOutcomes :              \* get_db_connection, execute
              IF db # "ok"                      \* 500 on either failure
              THEN /\ ev' = req @@ [db |-> db, status |-> 500]
                   /\ UNCHANGED favorites
              ELSE /\ favorites' = DeleteFavorite(favorites, user_id, meal_id)
                   /\ ev' = req @@ [db |-> db, status |-> 200]

AddFavorite ==
    \E uid \in UserIdArgs, mid \in Opt(MealIds \cup {""}) : add_favorite(uid, mid)

RemoveFavorite ==
    \E uid \in UserIdArgs, m \in MealIds : remove_favorite(uid, m)

---------------------------------------------------------------------------
(* Favorites: the claims *)

SameKey(r1, r2) == r1.user_id = r2.user_id /\ r1.meal_id = r2.meal_id

OtherFavRows(tbl, u, m) == tbl \ FavRows(tbl, u, m)

\* C3: the favorites table never holds two rows with one (user_id, meal_id)
\* pair, and right after any successful addFavorite the pair has exactly one
\* row, which carries the name that call gave (so the later of two successive
\* adds with different names decides the name).
C3_OneRowPerPairLatestName ==
    /\ \A r1, r2 \in favorites : SameKey(r1, r2) => r1 = r2
    /\ (ev.op = "add_favorite" /\ ev.status = 200) =>
          \E r \in favorites :
              /\ FavRows(favorites, ev.user_id, ev.meal_id) = {r}
              /\ r.meal_name = ev.meal_name

\* A successful add whose pair already had a row with another name.
C3_Witness ==
    /\ ev.op = "add_favorite" /\ ev.status = 200
    /\ \E b \in ev.before : b.meal_name # ev.meal_name
    /\ Cardinality(favorites) = 2

\* C8: an addFavorite step leaves every column but meal_name of an existing
\* row of its pair as stored, changes no row of another pair, and with
\* meal_id absent or empty answers 400 and changes no row.
C8_AddRefreshesNameOnly ==
    [][ev'.op = "add_favorite" =>
         /\ \A r \in FavRows(favorites, ev'.user_id, ev'.meal_id) :
               \E r2 \in favorites' :
                   /\ SameKey(r, r2)
                   /\ r2.meal_thumb = r.meal_thumb
                   /\ r2.category = r.category
                   /\ r2.area = r.area
                   /\ r2.created_at = r.created_at
         /\ OtherFavRows(favorites', ev'.user_id, ev'.meal_id)
               = OtherFavRows(favorites, ev'.user_id, ev'.meal_id)
         /\ ev'.meal_id = "" => (ev'.status = 400 /\ favorites' = favorites)
         /\ UNCHANGED <<users, search_history, recipe_cache>>]_vars

\* A successful re-add, on a later day, whose request gave another name and
\* other thumb, category and area than the stored row keeps.
C8_Witness ==
    /\ ev.op = "add_favorite" /\ ev.status = 200
    /\ \E b \in ev.before, r \in favorites :
          /\ SameKey(b, r)
          /\ b.meal_name # r.meal_name
          /\ r.created_at < now
          /\ r.meal_thumb # ev.details.meal_thumb
          /\ r.category # ev.details.category
          /\ r.area # ev.details.area

\* C6 as stated: removeFavorite for a pair without a row answers 200 and
\* leaves every table as it was; with a row it removes that row only.
C6_RemoveAbsentAlwaysSucceeds ==
    [][ev'.op = "remove_favorite" =>
         /\ FavRows(favorites, ev'.user_id, ev'.meal_id) = {} =>
               (ev'.status = 200 /\ favorites' = favorites)
         /\ OtherFavRows(favorites', ev'.user_id, ev'.meal_id)
               = OtherFavRows(favorites, ev'.user_id, ev'.meal_id)
         /\ UNCHANGED <<users, search_history, recipe_cache>>]_vars

\* C6 amended: when the connection is obtained and the DELETE executes,
\* removeFavorite answers 200 whether or not the pair has a row, removes the
\* rows of that pair and no other; when the connection is not obtained or the
\* DELETE raises a storage error it answers 500 and removes nothing.  In every
\* case the rows of other pairs and the other tables stay as they were.
C6_RemoveSucceedsWhenStorageOk ==
    [][ev'.op = "remove_favorite" =>
         /\ ev'.db = "ok" =>
               /\ ev'.status = 200
               /\ FavRows(favorites', ev'.user_id, ev'.meal_id) = {}
         /\ ev'.db # "ok" => (ev'.status = 500 /\ favorites' = favorites)
         /\ FavRows(favorites, ev'.user_id, ev'.meal_id) = {} => favorites' = favorites
         /\ OtherFavRows(favorites', ev'.user_id, ev'.meal_id)
               = OtherFavRows(favorites, ev'.user_id, ev'.meal_id)
         /\ UNCHANGED <<users, search_history, recipe_cache>>]_vars

\* A remove that executed for a pair without a row while the same meal is a
\* favorite of another user.
C6_Witness ==
    /\ ev.op = "remove_favorite" /\ ev.db = "ok" /\ ev.status = 200
    /\ ev.before = {}
    /\ \E r \in favorites : r.meal_id = ev.meal_id /\ r.user_id # ev.user_id

---------------------------------------------------------------------------
(* JSON values as the upstream returns them and the handlers read them *)

JNull == [t |-> "null"]
JList(items) == [t |-> "list", v |-> items]
JString(str) == [t |-> "string", v |-> str]
\* One meal of a 'meals' list, read through its idMeal and strMeal keys.
Meal(id, name) == [idMeal |-> id, strMeal |-> name]
\* A JSON object read only through its 'meals' key: <<>> when the key is
\* absent, <<value>> when present.
JObject(meals) == [t |-> "object", meals |-> meals]

\* requests.get(...) followed by response.json(): a transport or parse failure
\* raises; otherwise the parsed JSON value is returned.
UpFail == [ok |-> FALSE]
UpJson(j) == [ok |-> TRUE, json |-> j]

\* What filter.php / search.php can answer.
SearchAnswers ==
    {UpFail,
     UpJson(JString("busy")),
     UpJson(JObject(<<>>)),
     UpJson(JObject(<<JNull>>)),
     UpJson(JObject(<<JList(<<Meal("52772", "Teriyaki"),
                               Meal("52773", "Casserole")>>)>>))}

---------------------------------------------------------------------------
(* Search and search history *)

SearchKinds == {"ingredient", "name", "category"}

\* jsonify({'error': ...}): the body of every 400 and 500.
ErrorBody == [t |-> "error"]
Terms == {"chicken"}
Limits == {1, 2}        \* the digits of a limit= parameter

\* log_search_history: one INSERT; no connection and a storage error (the
\* foreign key on user_id among them) are printed and swallowed.
log_search_history(hist, user_id, term, kind, count, db, t) ==
    IF db = "ok" /\ user_id \in users
    THEN Append(hist, [user_id |-> user_id, search_term |-> term,
                       search_type |-> kind, results_count |-> count,
                       created_at |-> t])
    ELSE hist

\* Faulty variant of RequiredParam: the handler does not test the parameter.
RequiredParamUnchecked(arg) == [missing |-> FALSE, value |-> Get(arg, "")]

\* request.args.get(name, '') and "if not value"
RequiredParam(arg) == [missing |-> Get(arg, "") = "", value |-> Get(arg, "")]

\* search_by_ingredient, search_by_name, search_by_category: the three differ
\* in the parameter's name, the upstream endpoint and the search_type tag.
search(kind, arg) ==
    LET p   == RequiredParam(arg)
        req == [op |-> "search", kind |-> kind, arg |-> arg]
    IN  /\ UNCHANGED <<users, favorites, recipe_cache, now, client>>
        /\ IF p.missing
           THEN /\ ev' = req @@ [status |-> 400, body |-> ErrorBody, upstream |-> <<>>]
                /\ UNCHANGED search_history
           ELSE \E up \in SearchAnswers :       \* requests.get, response.json
                IF ~up.ok
                THEN /\ ev' = req @@ [status |-> 500, body |-> ErrorBody,
                                      upstream |-> <<up>>]
                     /\ UNCHANGED search_history
                ELSE IF up.json.t # "object"    \* data.get: AttributeError
                THEN /\ ev' = req @@ [status |-> 500, body |-> ErrorBody,
                                      upstream |-> <<up>>]
                     /\ UNCHANGED search_history
                ELSE LET meals == Get(up.json.meals, JList(<<>>))
                     IN  IF meals.t # "list"    \* len(None): TypeError
                         THEN /\ ev' = req @@ [status |-> 500, body |-> ErrorBody,
                                               upstream |-> <<up>>]
                              /\ UNCHANGED search_history
                         ELSE \E uid \in UserIdArgs, db \in DbOutcomes :
                              LET h == log_search_history(search_history,
                                           Get(uid, DEFAULT_USER), p.value, kind,
                                           Len(meals.v), db, now)
                              IN  /\ Len(h) <= MaxHist
                                  /\ search_history' = h
                                  /\ ev' = req @@       \* jsonify(data)
                                       [status |-> 200, body |-> up.json,
                                        upstream |-> <<up>>]

Search == \E kind \in SearchKinds, arg \in Opt(Terms \cup {""}) : search(kind, arg)

\* The value bound to LIMIT %s: request.args.get('limit', 10) is the int 10
\* when the parameter is absent and the parameter's text when it is given.
LimitParam(arg) ==
    IF arg = <<>> THEN [type |-> "int", val |-> DEFAULT_LIMIT]
    ELSE [type |-> "str", val |-> arg[1]]

\* cursor.execute renders a str parameter as a quoted literal and an int as
\* digits; MySQL accepts only an unquoted integer after LIMIT and rejects
\* LIMIT '2' with a syntax error.
LimitAccepted(p) == p.type = "int"

Min(a, b) == IF a < b THEN a ELSE b

Take(seq, k) == SubSeq(seq, 1, Min(k, Len(seq)))

UserEntries(hist, u) == {i \in 1..Len(hist) : hist[i].user_id = u}

\* ORDER BY created_at DESC over the rows of one user: every order of them in
\* which created_at never increases (rows of one timestamp come in any order).
OrderedByCreatedDesc(hist, u) ==
    LET I == UserEntries(hist, u)
        n == Cardinality(I)
    IN  {o \in [1..n -> I] :
            /\ \A i, j \in 1..n : i # j => o[i] # o[j]
            /\ \A i \in 1..n : \A j \in 1..n :
                  i < j => hist[o[i]].created_at >= hist[o[j]].created_at}

\* SELECT search_term, search_type, results_count, created_at
HistoryItem(row) ==
    [search_term |-> row.search_term, search_type |-> row.search_type,
     results_count |-> row.results_count, created_at |-> row.created_at]

\* GET /api/history
get_search_history(uid, lim) ==
    LET user_id == Get(uid, DEFAULT_USER)
        limit   == LimitParam(lim)
        req     == [op |-> "history", user_id |-> user_id, limit |-> lim]
    IN  /\ UNCHANGED <<users, favorites, search_history, recipe_cache, now, client>>
        /\ \E db \in DbOutcomes :
              IF db = "unreachable"             \* if not connection: 500
              THEN ev' = req @@ [db |-> db, status |-> 500, history |-> <<>>]
              ELSE IF db = "error" \/ ~LimitAccepted(limit)   \* except Error: 500
              THEN ev' = req @@ [db |-> db, status |-> 500, history |-> <<>>]
              ELSE \E o \in OrderedByCreatedDesc(search_history, user_id) :
                      ev' = req @@
                            [db |-> db, status |-> 200,
                             history |-> Take([i \in 1..Len(o) |->
                                                HistoryItem(search_history[o[i]])],
                                              limit.val)]

GetSearchHistory ==
    \E uid \in UserIdArgs, lim \in Opt(Limits) : get_search_history(uid, lim)

---------------------------------------------------------------------------
(* Search and search history: the claims *)

\* C1: a search step whose required parameter is missing or empty answers 400
\* with an error body, issues no upstream GET and writes no search_history
\* row (nor any other row).
C1_MissingParamIs400 ==
    [][(ev'.op = "search" /\ Get(ev'.arg, "") = "") =>
         /\ ev'.status = 400
         /\ ev'.body = ErrorBody
         /\ ev'.upstream = <<>>
         /\ UNCHANGED <<users, favorites, search_history, recipe_cache>>]_vars

\* An empty parameter refused after earlier searches were logged.
C1_Witness ==
    /\ ev.op = "search" /\ ev.arg = <<"">> /\ ev.status = 400
    /\ search_history # <<>>

\* C2 as stated: a search whose parameter is present and whose upstream GET
\* returned a JSON object answers 200 with that object, whatever its 'meals'
\* field and whatever happened to the history insert.
C2_ObjectAnswerIsPassedThrough ==
    (/\ ev.op = "search" /\ Get(ev.arg, "") # ""
     /\ ev.upstream # <<>> /\ ev.upstream[1].ok
     /\ ev.upstream[1].json.t = "object")
        => (ev.status = 200 /\ ev.body = ev.upstream[1].json)

\* C7 as stated, for requests whose connection is obtained and which meet no
\* storage fault: GET /api/history answers with min(n, L) entries of the
\* user, the newest first, L being the limit parameter or 10.
C7_HistoryNewestFirst ==
    (ev.op = "history" /\ ev.db = "ok") =>
        LET L == Get(ev.limit, DEFAULT_LIMIT)
            n == Cardinality(UserEntries(search_history, ev.user_id))
        IN  /\ ev.status = 200
            /\ Len(ev.history) = Min(n, L)
            /\ \E o \in OrderedByCreatedDesc(search_history, ev.user_id) :
                  ev.history = Take([i \in 1..Len(o) |->
                                        HistoryItem(search_history[o[i]])], L)

---------------------------------------------------------------------------
(* The recipe cache *)

\* What lookup.php?i=<meal_id> can answer: a failure, a non-object, an object
\* without 'meals', with null or empty 'meals', or with the meal asked for
\* (whose stored name may read differently from one lookup to the next).
LookupAnswers(meal_id) ==
    {UpFail,
     UpJson(JString("busy")),
     UpJson(JObject(<<>>)),
     UpJson(JObject(<<JNull>>)),
     UpJson(JObject(<<JList(<<>>)>>))}
    \cup {UpJson(JObject(<<JList(<<Meal(meal_id, name)>>)>>)) : name \in Names}

RECURSIVE DumpItems(_)
\* The text of the items of a list, three tokens a meal.
DumpItems(items) ==
    IF items = <<>> THEN <<>>
    ELSE <<"meal", Head(items).idMeal, Head(items).strMeal>> \o DumpItems(Tail(items))

RECURSIVE json_dumps(_)
\* json.dumps: the text of a JSON value, as a sequence of tokens.
json_dumps(j) ==
    IF j.t = "null" THEN <<"null">>
    ELSE IF j.t = "string" THEN <<"str", j.v>>
    ELSE IF j.t = "list" THEN <<"[">> \o DumpItems(j.v) \o <<"]">>
    ELSE IF j.meals = <<>> THEN <<"{", "}">>
    ELSE <<"{", "meals">> \o json_dumps(j.meals[1]) \o <<"}">>

RECURSIVE LoadItems(_)
LoadItems(text) ==
    IF text = <<>> THEN <<>>
    ELSE <<Meal(text[2], text[3])>> \o LoadItems(SubSeq(text, 4, Len(text)))

RECURSIVE json_loads(_)
\* json.loads: the JSON value of a text.
json_loads(text) ==
    IF text[1] = "null" THEN JNull
    ELSE IF text[1] = "str" THEN JString(text[2])
    ELSE IF text[1] = "[" THEN JList(LoadItems(SubSeq(text, 2, Len(text) - 1)))
    ELSE IF Len(text) = 2 THEN JObject(<<>>)
    ELSE JObject(<<json_loads(SubSeq(text, 3, Len(text) - 1))>>)

\* Python truth of a JSON value: None, an empty list, an empty string and an
\* object without keys are false.  (An object is shown by its 'meals' key.)
Truthy(j) ==
    IF j.t = "null" THEN FALSE
    ELSE IF j.t = "string" THEN j.v # ""
    ELSE IF j.t = "list" THEN j.v # <<>>
    ELSE j.meals # <<>>

\* Faulty variant of HasMeals: every answer is cached.
HasMealsAlways(data) == TRUE

\* if data.get('meals'): the answer carries a non-empty 'meals'.
HasMeals(data) == data.meals # <<>> /\ Truthy(data.meals[1])

CacheRows(tbl, meal_id) == {r \in tbl : r.meal_id = meal_id}

\* Faulty variant of Fresh: the comparison is turned round.
FreshReversed(row, t) == row.cached_at < t - CACHE_TTL

\* Faulty variant of Fresh: the boundary is inclusive.
FreshInclusive(row, t) == row.cached_at >= t - CACHE_TTL

\* cached_at > DATE_SUB(NOW(), INTERVAL 7 DAY)
Fresh(row, t) == row.cached_at > t - CACHE_TTL

\* get_cached_recipe: <<payload>> for a row of meal_id that is fresh, <<>> for
\* None (no connection, a storage error, no such row).
get_cached_recipe(tbl, meal_id, db, t) ==
    LET found == {r \in CacheRows(tbl, meal_id) : Fresh(r, t)}
    IN  IF db = "ok" /\ found # {}
        THEN LET row == CHOOSE r \in found : TRUE    \* cursor.fetchone()
             IN  <<json_loads(row.recipe_data)>>
        ELSE <<>>

\* Faulty variant of cache_recipe: the table without the UNIQUE meal_id.
cache_recipe_no_key(tbl, meal_id, recipe_data, db, t) ==
    IF db = "ok"
    THEN tbl \cup {[meal_id |-> meal_id, recipe_data |-> json_dumps(recipe_data),
                    cached_at |-> t]}
    ELSE tbl

\* cache_recipe: INSERT ... ON DUPLICATE KEY UPDATE recipe_data, cached_at =
\* NOW() under the UNIQUE meal_id; no connection and a storage error are
\* printed and swallowed.
cache_recipe(tbl, meal_id, recipe_data, db, t) ==
    IF db # "ok" THEN tbl
    ELSE IF CacheRows(tbl, meal_id) # {}
    THEN {IF r.meal_id = meal_id
          THEN [r EXCEPT !.recipe_data = json_dumps(recipe_data), !.cached_at = t]
          ELSE r : r \in tbl}
    ELSE tbl \cup {[meal_id |-> meal_id, recipe_data |-> json_dumps(recipe_data),
                    cached_at |-> t]}

\* The client whose requests in succession are followed; the other clients
\* are the requests that run beside them.
Followed == {"c1"}

\* A client that has returned from its request.  Until its next request
\* starts, prev keeps for a followed client what a request whose upstream
\* answer carried meals answered and the row it wrote.
Returned(c, prev) ==
    [pc |-> "idle", prev |-> IF c \in Followed THEN prev ELSE <<>>]

\* get_recipe_details, first statement: the cache read, and the return on a hit.
recipe_read(c, meal_id) ==
    /\ client[c].pc = "idle"
    /\ UNCHANGED <<users, favorites, search_history, recipe_cache, now>>
    /\ \E db \in DbOutcomes :
          LET cached == get_cached_recipe(recipe_cache, meal_id, db, now)
              req    == [op |-> "recipe_read", meal_id |-> meal_id,
                         db |-> db, cached |-> cached, prev |-> client[c].prev,
                         upstream |-> <<>>]
          IN  IF cached # <<>> /\ Truthy(cached[1])     \* if cached_recipe:
              THEN /\ client' = [client EXCEPT ![c] = Returned(c, <<>>)]
                   /\ ev' = req @@ [returned |-> TRUE, status |-> 200,
                                    body |-> cached[1]]
              ELSE /\ client' = [client EXCEPT ![c] =
                                   [pc |-> "fetch", meal_id |-> meal_id]]
                   /\ ev' = req @@ [returned |-> FALSE]

\* get_recipe_details, after a miss: the upstream lookup, and the return when
\* it fails or carries no meals.
recipe_fetch(c) ==
    /\ client[c].pc = "fetch"
    /\ UNCHANGED <<users, favorites, search_history, recipe_cache, now>>
    /\ \E up \in LookupAnswers(client[c].meal_id) :
          LET req == [op |-> "recipe_fetch", meal_id |-> client[c].meal_id,
                      upstream |-> <<up>>]
          IN  IF ~up.ok \/ up.json.t # "object"         \* except Exception: 500
              THEN /\ client' = [client EXCEPT ![c] = Returned(c, <<>>)]
                   /\ ev' = req @@ [returned |-> TRUE, status |-> 500,
                                    body |-> ErrorBody]
              ELSE IF ~HasMeals(up.json)
              THEN /\ client' = [client EXCEPT ![c] = Returned(c, <<>>)]
                   /\ ev' = req @@ [returned |-> TRUE, status |-> 200,
                                    body |-> up.json]
              ELSE /\ client' = [client EXCEPT ![c] =
                                   [pc |-> "store", meal_id |-> client[c].meal_id,
                                    data |-> up.json]]
                   /\ ev' = req @@ [returned |-> FALSE]

\* get_recipe_details, last statement: cache_recipe and the return.
recipe_store(c) ==
    /\ client[c].pc = "store"
    /\ UNCHANGED <<users, favorites, search_history, now>>
    /\ \E db \in DbOutcomes :
          LET meal_id == client[c].meal_id
              data    == client[c].data
              tbl     == cache_recipe(recipe_cache, meal_id, data, db, now)
              written == IF db = "ok" THEN CacheRows(tbl, meal_id) ELSE {}
          IN  /\ recipe_cache' = tbl
              /\ client' = [client EXCEPT ![c] =
                              Returned(c, <<[meal_id |-> meal_id, body |-> data,
                                             written |-> written]>>)]
              /\ ev' = [op |-> "recipe_store", meal_id |-> meal_id, db |-> db,
                        before |-> CacheRows(recipe_cache, meal_id),
                        upstream |-> <<UpJson(data)>>,
                        returned |-> TRUE, status |-> 200, body |-> data]

RecipeRead == \E c \in Clients, m \in MealIds : recipe_read(c, m)

RecipeFetch == \E c \in Clients : recipe_fetch(c)

RecipeStore == \E c \in Clients : recipe_store(c)

---------------------------------------------------------------------------
(* The recipe cache: the claims *)

\* The rows of meal_id whose cached_at is strictly later than t - 7 days.
StrictlyWithinTtl(tbl, meal_id, t) ==
    {r \in CacheRows(tbl, meal_id) : r.cached_at > t - CACHE_TTL}

\* C5 as stated: getCachedRecipe returns the stored payload exactly when a
\* row of the meal exists with cached_at strictly later than read time minus
\* 7 days, otherwise "not found", and leaves recipe_cache unchanged.
C5_PayloadExactlyWhenFresh ==
    [][ev'.op = "recipe_read" =>
         /\ recipe_cache' = recipe_cache
         /\ IF StrictlyWithinTtl(recipe_cache, ev'.meal_id, now) # {}
            THEN \E r \in StrictlyWithinTtl(recipe_cache, ev'.meal_id, now) :
                    ev'.cached = <<json_loads(r.recipe_data)>>
            ELSE ev'.cached = <<>>]_vars

\* C5 amended: when the connection is obtained and the SELECT executes,
\* getCachedRecipe returns the stored payload exactly when a row of the meal
\* exists with cached_at strictly later than read time minus 7 days, and
\* "not found" otherwise; when the connection is not obtained or the SELECT
\* raises a storage error it returns "not found" whatever is stored.  It
\* never changes recipe_cache, so a stale row stays stored.
C5_PayloadExactlyWhenFreshAndStorageOk ==
    [][ev'.op = "recipe_read" =>
         /\ recipe_cache' = recipe_cache
         /\ ev'.db # "ok" => ev'.cached = <<>>
         /\ ev'.db = "ok" =>
               IF StrictlyWithinTtl(recipe_cache, ev'.meal_id, now) # {}
               THEN \E r \in StrictlyWithinTtl(recipe_cache, ev'.meal_id, now) :
                       ev'.cached = <<json_loads(r.recipe_data)>>
               ELSE ev'.cached = <<>>]_vars

\* A read that executed and found only a row cached exactly 7 days before.
C5_Witness ==
    /\ ev.op = "recipe_read" /\ ev.db = "ok" /\ ev.cached = <<>>
    /\ \E r \in CacheRows(recipe_cache, ev.meal_id) : r.cached_at = now - CACHE_TTL

\* C9: recipe_cache never holds two rows of one meal_id, and right after a
\* cacheRecipe that executed the meal has exactly one row, stamped with the
\* write time and holding the writer's payload, which a getCachedRecipe at
\* that moment returns.
C9_OneRowLastWriterWins ==
    /\ \A r1, r2 \in recipe_cache : r1.meal_id = r2.meal_id => r1 = r2
    /\ (ev.op = "recipe_store" /\ ev.db = "ok") =>
          /\ \E r \in recipe_cache :
                /\ CacheRows(recipe_cache, ev.meal_id) = {r}
                /\ r.cached_at = now
          /\ get_cached_recipe(recipe_cache, ev.meal_id, "ok", now) = <<ev.body>>

\* A write that executed over a stale row holding another payload.
C9_Witness ==
    /\ ev.op = "recipe_store" /\ ev.db = "ok"
    /\ \E b \in ev.before :
          /\ b.cached_at <= now - CACHE_TTL
          /\ b.recipe_data # json_dumps(ev.body)

\* The 'meals' a cached text carries: a non-empty list of the row's own meal.
CarriesOwnMeal(row) ==
    LET j == json_loads(row.recipe_data)
    IN  /\ j.t = "object"
        /\ j.meals # <<>>
        /\ j.meals[1].t = "list"
        /\ j.meals[1].v # <<>>
        /\ \A i \in 1..Len(j.meals[1].v) : j.meals[1].v[i].idMeal = row.meal_id

\* C10: every stored row carries a non-empty 'meals' answered for its own
\* meal_id; recipe_cache changes only in the cache write of a request that
\* missed the cache and whose upstream answer carried meals; a cache read
\* that returned a payload ends the request with no upstream lookup.
C10_CacheHoldsOnlyUpstreamData ==
    [][/\ \A r \in recipe_cache' : CarriesOwnMeal(r)
       /\ recipe_cache' # recipe_cache =>
             /\ ev'.op = "recipe_store"
             /\ \E c \in Clients :
                   /\ client[c].pc = "store" /\ client'[c].pc = "idle"
                   /\ client[c].meal_id = ev'.meal_id
                   /\ ev'.upstream = <<UpJson(client[c].data)>>
                   /\ recipe_cache' \ recipe_cache \subseteq
                         {r \in recipe_cache' : r.meal_id = ev'.meal_id}
       /\ (ev'.op = "recipe_read" /\ ev'.cached # <<>>) =>
             /\ ev'.returned /\ ev'.upstream = <<>>
             /\ \A c \in Clients : client'[c].pc = "fetch" => client[c].pc = "fetch"
       /\ ev'.op = "recipe_fetch" =>
             \E c \in Clients : client[c].pc = "fetch" /\ client'[c].pc # "fetch"
      ]_vars

\* An upstream answer with null 'meals' passed through while the other
\* meal stays cached and this one is not.
C10_Witness ==
    /\ ev.op = "recipe_fetch" /\ ev.returned /\ ev.status = 200
    /\ ev.upstream = <<UpJson(JObject(<<JNull>>))>>
    /\ recipe_cache # {}
    /\ CacheRows(recipe_cache, ev.meal_id) = {}

---------------------------------------------------------------------------
(* The clock *)

\* Time passes between requests: from day 0 the clock goes to day `first`,
\* then on day by day up to `limit`.
Advance(first, limit) ==
    LET next == IF now = 0 THEN first ELSE now + 1
    IN  /\ next <= limit
        /\ now' = next
        /\ ev' = NoEvent
        /\ UNCHANGED <<users, favorites, search_history, recipe_cache, client>>

\* The cache specification's clock: day 0, the eve of the expiry of what day 0
\* cached, the day of that expiry, and on: rows are read at ages below, at and
\* above CACHE_TTL.
Tick == Advance(CACHE_TTL - 1, MaxTime)

TickBrief == Advance(1, MaxBriefTime)

---------------------------------------------------------------------------

\* init_db creates the tables empty; nothing in the program writes users, whose
\* rows come from outside it.
Init ==
    /\ users \in SUBSET UserIds
    /\ favorites = {}
    /\ search_history = <<>>
    /\ recipe_cache = {}
    /\ now = 0
    /\ client = [c \in Clients |-> [pc |-> "idle", prev |-> <<>>]]
    /\ ev = NoEvent

Next ==
    \/ AddFavorite \/ RemoveFavorite
    \/ Search \/ GetSearchHistory
    \/ RecipeRead \/ RecipeFetch \/ RecipeStore
    \/ Tick

Spec == Init /\ [][Next]_vars

(* The specifications the claims are checked under: the requests of one part *)
(* of the service each, the other tables being left as they are.            *)

NextFav == AddFavorite \/ RemoveFavorite \/ TickBrief

SpecFav == Init /\ [][NextFav]_vars

NextCache == RecipeRead \/ RecipeFetch \/ RecipeStore \/ Tick

\* The recipe handler touches neither users nor the rows that refer to them.
InitCache == Init /\ users = UserIds

SpecCache == InitCache /\ [][NextCache]_vars

NextSearch == Search \/ TickBrief

SpecSearch == Init /\ [][NextSearch]_vars

NextHistory == Search \/ GetSearchHistory \/ TickBrief

SpecHistory == Init /\ [][NextHistory]_vars

====
